---- MODULE Spec2Model ----
(***************************************************************************)
(* Model of comfy-table's TableStyle (src/style/table.rs): the map from    *)
(* Component to the character drawn for it, the two positional parsers     *)
(* load_preset / apply_modifier, set_style and the three read accessors.   *)
(*                                                                         *)
(* A char is a one-character TLA+ string, a &str / String is a sequence of *)
(* chars, Option<char> is <<"None">> or <<"Some", ch>>, and the            *)
(* HashMap<Component, char> is a function whose DOMAIN is the set of keys. *)
(***************************************************************************)
EXTENDS Integers, Sequences, FiniteSets, TLC

\* ---------------------------------------------------------------- bounds
\* Number of calls made on the TableStyle after construction.
MaxOps == 2
\* Longest enumerated preset / modifier string (the fixed strings below are
\* added to the enumerated ones).
MaxLen == 2

\* ------------------------------------------------------------- Component
\* enum Component, in declaration order: the order Component::iter() yields.
Components ==
  << "LeftBorder", "RightBorder", "TopBorder", "BottomBorder",
     "LeftHeaderIntersection", "HeaderLines", "MiddleHeaderIntersections",
     "RightHeaderIntersection", "VerticalLines", "HorizontalLines",
     "MiddleIntersections", "LeftBorderIntersections",
     "RightBorderIntersections", "TopBorderIntersections",
     "BottomBorderIntersections", "TopLeftCorner", "TopRightCorner",
     "BottomLeftCorner", "BottomRightCorner" >>

Component == { Components[k] : k \in 1..Len(Components) }

\* crate::style::presets::ASCII_FULL, "||--+==+|-+||++++++": one character
\* for each of the components, none of them a space.
ASCII_FULL ==
  << "|", "|", "-", "-", "+", "=", "=", "+", "|", "-",
     "+", "|", "|", "+", "+", "+", "+", "+", "+" >>

\* ------------------------------------------------------ Option<char>
None == << "None" >>
Some(character) == << "Some", character >>

\* ------------------------------------------------------------- HashMap
\* HashMap::new()
HashMapNew == << >>

\* HashMap::insert(component, character): add the key or overwrite its value.
HashMapInsert(map, component, character) ==
  [ c \in (DOMAIN map) \cup {component} |->
      IF c = component THEN character ELSE map[c] ]

\* HashMap::remove(&component): drop the key if it is there.
HashMapRemove(map, component) ==
  [ c \in (DOMAIN map) \ {component} |-> map[c] ]

\* HashMap::get(&component)
HashMapGet(map, component) ==
  IF component \in DOMAIN map THEN Some(map[component]) ELSE None

\* ---------------------------------------------------------- TableStyle
\* The struct literal of TableStyle::new, before the default preset is loaded.
TableStyleLiteral == [ has_header |-> FALSE, style |-> HashMapNew ]

RECURSIVE load_preset_loop(_, _, _, _)

\* Variant: a space is passed over without removing the mapping.
load_preset_loop_no_remove(map, preset, i, k) ==
  IF i > Len(preset) THEN map
  ELSE IF k > Len(Components) THEN map
  ELSE IF preset[i] = " "
       THEN load_preset_loop(map, preset, i + 1, k + 1)
       ELSE load_preset_loop(HashMapInsert(map, Components[k], preset[i]),
                             preset, i + 1, k + 1)

\* Variant: a space `continue`s only when there was a mapping to remove, and
\* is inserted like any other character otherwise.
load_preset_loop_fallthrough(map, preset, i, k) ==
  IF i > Len(preset) THEN map
  ELSE IF k > Len(Components) THEN map
  ELSE IF preset[i] = " " /\ Components[k] \in DOMAIN map
       THEN load_preset_loop(HashMapRemove(map, Components[k]), preset, i + 1, k + 1)
       ELSE load_preset_loop(HashMapInsert(map, Components[k], preset[i]),
                             preset, i + 1, k + 1)

\* The for loop of load_preset: i is the position of `character` in
\* preset.chars(), k the position the `components` iterator is at.
load_preset_loop(map, preset, i, k) ==
  IF i > Len(preset) THEN map
  ELSE IF k > Len(Components) THEN map            \* components.next() = None: break
  ELSE IF preset[i] = " "
       THEN load_preset_loop(HashMapRemove(map, Components[k]), preset, i + 1, k + 1)
       ELSE load_preset_loop(HashMapInsert(map, Components[k], preset[i]),
                             preset, i + 1, k + 1)

\* Variant: the default preset is loaded first, so that the components a
\* short preset does not reach get the ASCII_FULL character.
load_preset_from_default(self, preset) ==
  [ self EXCEPT !.style =
      load_preset_loop(load_preset_loop(self.style, ASCII_FULL, 1, 1), preset, 1, 1) ]

load_preset(self, preset) ==
  [ self EXCEPT !.style = load_preset_loop(self.style, preset, 1, 1) ]

RECURSIVE apply_modifier_loop(_, _, _, _)

\* Variant: a space is handled as load_preset handles it, removing the
\* mapping of the component it is paired with.
apply_modifier_loop_clears(map, modifier, i, k) ==
  IF i > Len(modifier) THEN map
  ELSE IF k > Len(Components) THEN map
  ELSE IF modifier[i] = " "
       THEN apply_modifier_loop(HashMapRemove(map, Components[k]), modifier, i + 1, k + 1)
       ELSE apply_modifier_loop(HashMapInsert(map, Components[k], modifier[i]),
                                modifier, i + 1, k + 1)

\* The for loop of apply_modifier: a space `continue`s before
\* components.next() is called, so it does not advance the iterator.
apply_modifier_loop(map, modifier, i, k) ==
  IF i > Len(modifier) THEN map
  ELSE IF modifier[i] = " "
       THEN apply_modifier_loop(map, modifier, i + 1, k)
  ELSE IF k > Len(Components) THEN map            \* components.next() = None: break
  ELSE apply_modifier_loop(HashMapInsert(map, Components[k], modifier[i]),
                           modifier, i + 1, k + 1)

apply_modifier(self, modifier) ==
  [ self EXCEPT !.style = apply_modifier_loop(self.style, modifier, 1, 1) ]

\* Variant: None removes the mapping.
set_style_none_removes(self, component, character) ==
  IF character[1] = "Some"
  THEN [ self EXCEPT !.style = HashMapInsert(self.style, component, character[2]) ]
  ELSE [ self EXCEPT !.style = HashMapRemove(self.style, component) ]

\* Variant: Some(' ') is taken as "don't draw", as in a preset.
set_style_space_clears(self, component, character) ==
  IF character[1] = "Some"
  THEN IF character[2] = " "
       THEN [ self EXCEPT !.style = HashMapRemove(self.style, component) ]
       ELSE [ self EXCEPT !.style = HashMapInsert(self.style, component, character[2]) ]
  ELSE self

\* set_style(component, character: Option<char>)
set_style(self, component, character) ==
  IF character[1] = "Some"
  THEN [ self EXCEPT !.style = HashMapInsert(self.style, component, character[2]) ]
  ELSE self

\* get_style: a copy of the mapped char, as Option<char>.
get_style(self, component) ==
  LET found == HashMapGet(self.style, component)
  IN  IF found = None THEN None ELSE Some(found[2])

\* char::to_string: the String holding that one char.
to_string(character) == << character >>

\* Variant: the empty String for an unmapped component.
style_or_default_empty(self, component) ==
  LET found == HashMapGet(self.style, component)
  IN  IF found = None THEN << >> ELSE to_string(found[2])

\* style_or_default: a String.
style_or_default(self, component) ==
  LET found == HashMapGet(self.style, component)
  IN  IF found = None THEN << " " >> ELSE to_string(found[2])

\* style_exists: .is_some()
style_exists(self, component) == HashMapGet(self.style, component)[1] = "Some"

\* ------------------------------------------------------------- inputs
\* Characters enumerated in generated strings and set_style calls.
Char == { " ", "A" }

RECURSIVE StringsOfLen(_)
StringsOfLen(n) ==
  IF n = 0 THEN { << >> }
  ELSE { Append(s, ch) : s \in StringsOfLen(n - 1), ch \in Char }

\* The preset "AB C" and the modifier "X Y" of the documented scenario.
ScenarioPreset == << "A", "B", " ", "C" >>
ScenarioModifier == << "X", " ", "Y" >>
\* A string of 21 characters whose last two are beyond the component list.
TooLong == [ i \in 1..(Len(Components) + 2) |-> IF i = 3 THEN " " ELSE "T" ]

Strings ==
  UNION { StringsOfLen(n) : n \in 0..MaxLen }
    \cup { ScenarioPreset, ScenarioModifier, ASCII_FULL, TooLong }

OptionChar == { None } \cup { Some(ch) : ch \in Char }

\* --------------------------------------------------------------- state
VARIABLES
  table_style,   \* the TableStyle: [has_header, style]
  pc,            \* "new": inside TableStyle::new, preset not yet loaded; "ready"
  old,           \* the TableStyle as it was before the last call
  last,          \* the last call made: [op, ...arguments]
  ret,           \* what the last read accessor returned
  inserted,      \* the components some call has inserted since the empty map
  ops            \* number of calls made after construction

vars == << table_style, pc, old, last, ret, inserted, ops >>

NoRet == << "unit" >>

\* Components an operation inserted: those whose key is in the map after it
\* and was absent or held another character before.
Touched(before, after) ==
  { c \in DOMAIN after.style :
      c \notin DOMAIN before.style \/ before.style[c] # after.style[c] }

Init ==
  /\ table_style = TableStyleLiteral
  /\ pc = "new"
  /\ old = TableStyleLiteral
  /\ last = [ op |-> "literal" ]
  /\ ret = NoRet
  /\ inserted = {}
  /\ ops = 0

\* TableStyle::new: table_style.load_preset(ASCII_FULL)
New ==
  /\ pc = "new"
  /\ table_style' = load_preset(table_style, ASCII_FULL)
  /\ pc' = "ready"
  /\ old' = table_style
  /\ last' = [ op |-> "new" ]
  /\ ret' = NoRet
  /\ inserted' = inserted \cup Touched(table_style, table_style')
  /\ ops' = ops

Mutate(next, call) ==
  /\ pc = "ready"
  /\ ops < MaxOps
  /\ table_style' = next
  /\ old' = table_style
  /\ last' = call
  /\ ret' = NoRet
  /\ inserted' = inserted \cup Touched(table_style, next)
  /\ ops' = ops + 1
  /\ pc' = pc

LoadPreset(preset) ==
  Mutate(load_preset(table_style, preset),
         [ op |-> "load_preset", preset |-> preset ])

ApplyModifier(modifier) ==
  Mutate(apply_modifier(table_style, modifier),
         [ op |-> "apply_modifier", modifier |-> modifier ])

SetStyle(component, character) ==
  Mutate(set_style(table_style, component, character),
         [ op |-> "set_style", component |-> component, character |-> character ])

\* The read accessors take self and return a value; the struct they leave
\* behind is the one they were given.
Read(result, call) ==
  /\ pc = "ready"
  /\ ops < MaxOps
  /\ ret' = result
  /\ last' = call
  /\ old' = table_style
  /\ ops' = ops + 1
  /\ UNCHANGED << table_style, pc, inserted >>

GetStyle(component) ==
  Read(get_style(table_style, component),
       [ op |-> "get_style", component |-> component ])

StyleOrDefault(component) ==
  Read(style_or_default(table_style, component),
       [ op |-> "style_or_default", component |-> component ])

StyleExists(component) ==
  Read(style_exists(table_style, component),
       [ op |-> "style_exists", component |-> component ])

Next ==
  \/ New
  \/ \E preset \in Strings : LoadPreset(preset)
  \/ \E modifier \in Strings : ApplyModifier(modifier)
  \/ \E component \in Component, character \in OptionChar :
       SetStyle(component, character)
  \/ \E component \in Component : GetStyle(component)
  \/ \E component \in Component : StyleOrDefault(component)
  \/ \E component \in Component : StyleExists(component)

Spec == Init /\ [][Next]_vars

\* ------------------------------------------------- helpers of the claims
\* Canonical position of a component.
Pos(component) == CHOOSE k \in 1..Len(Components) : Components[k] = component

Min(a, b) == IF a < b THEN a ELSE b

\* The string positions that have a component: 1 .. min(len(s), 19).
Paired(s) == 1..Min(Len(s), Len(Components))

\* The mapping of a component in a TableStyle, as the map itself holds it.
Mapping(self, component) == HashMapGet(self.style, component)

\* The last call was load_preset (TableStyle::new calls it with ASCII_FULL).
IsLoadPreset == last.op \in { "load_preset", "new" }
LastPreset == IF last.op = "new" THEN ASCII_FULL ELSE last.preset

IsRead == last.op \in { "get_style", "style_or_default", "style_exists" }

\* ---------------------------------------------------------------- C1
\* C1: after apply_modifier(s), for every i < min(len(s), 19): if s[i] is a
\* space the i-th component keeps the mapping (or absence) it had before the
\* call, otherwise get_style of the i-th component is Some(s[i]); and "X Y"
\* applied to Left='A', Right='B', Top unmapped, Bottom='C' gives Left='X',
\* Right='B', Top='Y', Bottom='C'.
C1_ApplyModifierPositional ==
  last.op = "apply_modifier" =>
    /\ \A i \in Paired(last.modifier) :
         IF last.modifier[i] = " "
         THEN Mapping(table_style, Components[i]) = Mapping(old, Components[i])
         ELSE get_style(table_style, Components[i]) = Some(last.modifier[i])
    /\ ( /\ last.modifier = ScenarioModifier
         /\ Mapping(old, "LeftBorder") = Some("A")
         /\ Mapping(old, "RightBorder") = Some("B")
         /\ Mapping(old, "TopBorder") = None
         /\ Mapping(old, "BottomBorder") = Some("C") )
       => /\ get_style(table_style, "LeftBorder") = Some("X")
          /\ get_style(table_style, "RightBorder") = Some("B")
          /\ get_style(table_style, "TopBorder") = Some("Y")
          /\ get_style(table_style, "BottomBorder") = Some("C")

\* ---------------------------------------------------------------- C2
\* C2: after load_preset(s), for every i < min(len(s), 19): if s[i] is a
\* space then style_exists of the i-th component is false, otherwise
\* get_style of that component is Some(s[i]).
C2_LoadPresetPositional ==
  IsLoadPreset =>
    \A i \in Paired(LastPreset) :
      IF LastPreset[i] = " "
      THEN ~ style_exists(table_style, Components[i])
      ELSE get_style(table_style, Components[i]) = Some(LastPreset[i])

\* load_preset("AB C") has just cleared a TopBorder that was mapped and
\* overwritten the three borders around it.
C2_Witness ==
  /\ last.op = "load_preset"
  /\ last.preset = ScenarioPreset
  /\ style_exists(old, "TopBorder")
  /\ ~ style_exists(table_style, "TopBorder")
  /\ get_style(table_style, "LeftBorder") = Some("A")
  /\ get_style(table_style, "RightBorder") = Some("B")
  /\ get_style(table_style, "BottomBorder") = Some("C")

C5_SetStyleSome ==
  (last.op = "set_style" /\ last.character # None) =>
    /\ get_style(table_style, last.component) = last.character
    /\ \A d \in Component \ { last.component } :
         Mapping(table_style, d) = Mapping(old, d)

\* set_style(c, Some(' ')) was called on a component that was unmapped.
C5_Witness ==
  /\ last.op = "set_style"
  /\ last.character = Some(" ")
  /\ ~ style_exists(old, last.component)
  /\ style_exists(table_style, last.component)

\* ---------------------------------------------------------------- C6
\* C6: in every reachable state the three read accessors agree for every
\* component: style_exists is true exactly when get_style is Some(ch);
\* style_or_default is the one-character string of ch then and " "
\* otherwise; a read leaves the TableStyle as it was; and a component that
\* nothing has inserted since the empty map is unmapped.
C6_ReadersAgree ==
  /\ \A c \in Component :
       /\ style_exists(table_style, c) <=> get_style(table_style, c) # None
       /\ get_style(table_style, c) # None
            => style_or_default(table_style, c) = << get_style(table_style, c)[2] >>
       /\ get_style(table_style, c) = None
            => style_or_default(table_style, c) = << " " >>
       /\ Len(style_or_default(table_style, c)) = 1
       /\ c \notin inserted => ~ style_exists(table_style, c)
  /\ IsRead => table_style = old
  /\ last.op = "get_style" => ret = get_style(old, last.component)
  /\ last.op = "style_or_default" => ret = style_or_default(old, last.component)
  /\ last.op = "style_exists" => ret = style_exists(old, last.component)

\* style_or_default has just returned " " for a component that a preset
\* had cleared.
C6_Witness ==
  /\ last.op = "style_or_default"
  /\ ret = << " " >>
  /\ last.component \in inserted
  /\ ~ style_exists(table_style, last.component)
  /\ \E d \in Component : get_style(table_style, d) = Some("A")

\* ---------------------------------------------------------------- C7
\* C7: load_preset is idempotent: loading the preset just loaded once more
\* gives the same TableStyle.
C7_LoadPresetIdempotent ==
  IsLoadPreset => load_preset(table_style, LastPreset) = table_style

\* A preset with a space and a character in it has just changed the style.
C7_Witness ==
  /\ last.op = "load_preset"
  /\ \E i, j \in Paired(last.preset) :
       /\ last.preset[i] = " " /\ style_exists(old, Components[i])
       /\ last.preset[j] # " "
       /\ Mapping(old, Components[j]) # Some(last.preset[j])

\* ---------------------------------------------------------------- C8
\* C8: after load_preset(s) with len(s) < 19, every component at a position
\* beyond len(s) has the character ASCII_FULL gives that position, whatever
\* it had before the call.
C8_ShortPresetRestoresDefault ==
  (last.op = "load_preset" /\ Len(last.preset) < Len(Components)) =>
    \A k \in (Len(last.preset) + 1)..Len(Components) :
      get_style(table_style, Components[k]) = Some(ASCII_FULL[k])

\* ---------------------------------------------------------------- C9
\* C9: after set_style(c, None) the component c is not displayed:
\* style_exists(c) is false and get_style(c) is None.
C9_SetStyleNoneHides ==
  (last.op = "set_style" /\ last.character = None) =>
    /\ ~ style_exists(table_style, last.component)
    /\ get_style(table_style, last.component) = None

====
